---- MODULE Spec2Model ----
(***************************************************************************)
(* The aws_iam_policy_attachment resource of                              *)
(* resource_aws_iam_policy_attach.go: the four CRUD handlers and the six   *)
(* attach/detach loops, run against a remote IAM whose every call may      *)
(* succeed or fail.                                                        *)
(*                                                                         *)
(* One action is one invocation of one handler.  The variable trace holds  *)
(* what that invocation did, in order: its remote calls with their         *)
(* outcomes, and its d.SetId calls.                                        *)
(***************************************************************************)
EXTENDS Naturals, Sequences, FiniteSets, TLC

VARIABLES
    config,   \* the declared users/roles/groups (what d.Get returns in Create and Update)
    d,        \* the resource data the handlers leave behind: id and the stored sets
    remote,   \* the remote IAM: the principals the policy is attached to, per kind
    inv,      \* the most recent handler invocation: its name and the state it started from
    trace,    \* the calls of the most recent invocation, in the order issued
    ret,      \* the error the most recent invocation returned (Nil: success)
    prev,     \* the invocation before the most recent one: its name, whether it returned
              \* Nil, and whether one of its attach or detach calls succeeded
    nops      \* handler invocations so far

vars == <<config, d, remote, inv, trace, ret, prev, nops>>

(* ---- bounds ---------------------------------------------------------- *)

\* How many users, roles and groups there are to declare, and how many handler
\* invocations a run has (the first one any handler, the later ones Update again).
NumUsers == 1
NumRoles == 3
NumGroups == 2
MaxOps == 2

UserNames == <<"alice", "bob", "carol">>
RoleNames == <<"r1", "r2", "r3", "r4">>
GroupNames == <<"g1", "g2", "g3">>

Users == {UserNames[i] : i \in 1..NumUsers}
Roles == {RoleNames[i] : i \in 1..NumRoles}
Groups == {GroupNames[i] : i \in 1..NumGroups}

Kinds == {"users", "roles", "groups"}

\* The "name" and "policy_arn" attributes (both ForceNew: fixed for the resource's life).
Name == "attach"
Arn == "arn:aws:iam::policy/p"

NoMembers == [users |-> {}, roles |-> {}, groups |-> {}]

MemberSets ==
    {[users |-> u, roles |-> r, groups |-> g] :
        u \in SUBSET Users, r \in SUBSET Roles, g \in SUBSET Groups}

(* ---- errors ---------------------------------------------------------- *)

Nil == [type |-> "nil"]

\* The error a failed attach or detach call returns.
CallError(api, who) == [type |-> "aws", code |-> "ServiceFailure", api |-> api, who |-> who]

\* The errors GetPolicy can return: an awserr.Error with code NoSuchIdentity, an
\* awserr.Error with another code, and an error that is no awserr.Error.
GetPolicyErrors ==
    {[type |-> "aws", code |-> "NoSuchIdentity", api |-> "GetPolicy", who |-> Arn],
     [type |-> "aws", code |-> "ServiceFailure", api |-> "GetPolicy", who |-> Arn],
     [type |-> "plain", code |-> "NoSuchIdentity", api |-> "GetPolicy", who |-> Arn]}

ListError == [type |-> "aws", code |-> "ServiceFailure", api |-> "ListEntitiesForPolicy", who |-> Arn]

\* fmt.Errorf with the three per-kind errors.
Errorf(msg, name, userErr, roleErr, groupErr) ==
    [type |-> "fmt", msg |-> msg, name |-> name,
     users |-> userErr, roles |-> roleErr, groups |-> groupErr]

(* ---- the remote API --------------------------------------------------- *)

Call(api, who, arn, err) == [api |-> api, who |-> who, arn |-> arn, err |-> err]

AttachApi == [users |-> "AttachUserPolicy", roles |-> "AttachRolePolicy", groups |-> "AttachGroupPolicy"]
DetachApi == [users |-> "DetachUserPolicy", roles |-> "DetachRolePolicy", groups |-> "DetachGroupPolicy"]

\* The remote state after one call: a successful attach adds the principal to its
\* kind's set, a successful detach removes it, anything else changes nothing.
RemoteAfter(rem, c) ==
    IF c.err # Nil \/ c.arn # Arn THEN rem
    ELSE [k \in Kinds |->
            IF c.api = AttachApi[k] THEN rem[k] \cup {c.who}
            ELSE IF c.api = DetachApi[k] THEN rem[k] \ {c.who}
            ELSE rem[k]]

RECURSIVE RemoteAfterAll(_, _)
RemoteAfterAll(rem, cs) ==
    IF cs = <<>> THEN rem ELSE RemoteAfterAll(RemoteAfter(rem, Head(cs)), Tail(cs))

(* ---- schema.Set and expandStringList ---------------------------------- *)

\* (*schema.Set).List(): the members in one of the orders the set can list them.
RECURSIVE List(_)
List(S) ==
    IF S = {} THEN {<<>>}
    ELSE UNION {{<<x>> \o l : l \in List(S \ {x})} : x \in S}

Difference(s, other) == s \ other

\* expandStringList: the strings as a []*string; the empty list is the nil slice.
nil == <<>>
expandStringList(configured) == [i \in 1..Len(configured) |-> configured[i]]

(* ---- schema.ResourceData ----------------------------------------------- *)

\* The ResourceData a handler is given: the id, the two fixed attributes, the sets
\* of the prior state (old) and the sets d.Get returns (new).
ResourceData(id, old, new) ==
    [id |-> id, name |-> Name, arn |-> Arn, old |-> old, new |-> new]

HasChange(rd, key) == rd.old[key] # rd.new[key]

SetIdCall(id) == Call("SetId", id, "", Nil)
SetId(rd, id) == [rd EXCEPT !.id = id]

Range(l) == {l[i] : i \in DOMAIN l}

\* d.Set(key, list): the stored set becomes the members of the list.
Set(rd, key, list) == [rd EXCEPT !.new[key] = Range(list)]

(* ---- the attach and detach loops --------------------------------------- *)

\* What a loop, an update of one kind or a handler did: its calls in order and
\* the error it returned.
NoCalls == [calls |-> <<>>, err |-> Nil]

\* for _, p := range list { _, err := conn.<api>(p, arn); if err != nil { return err } }
\* return nil.  Each call either succeeds or fails: the set of all runs of the loop.
RECURSIVE ForEachUntilError(_, _, _)
ForEachUntilError(api, list, arn) ==
    IF list = <<>> THEN {NoCalls}
    ELSE LET p == Head(list)
             err == CallError(api, p)
         IN  {[calls |-> <<Call(api, p, arn, err)>>, err |-> err]}
             \cup {[calls |-> <<Call(api, p, arn, Nil)>> \o r.calls, err |-> r.err] :
                      r \in ForEachUntilError(api, Tail(list), arn)}

\* The loop with the early return left out: every member is called, and the first
\* error is returned at the end.
RECURSIVE ForEachKeepGoing(_, _, _)
ForEachKeepGoing(api, list, arn) ==
    IF list = <<>> THEN {NoCalls}
    ELSE LET p == Head(list)
             err == CallError(api, p)
         IN  UNION {{[calls |-> <<Call(api, p, arn, err)>> \o r.calls, err |-> err],
                     [calls |-> <<Call(api, p, arn, Nil)>> \o r.calls, err |-> r.err]} :
                       r \in ForEachKeepGoing(api, Tail(list), arn)}

\* The loop that, when a call fails, undoes the calls that succeeded before it.
RECURSIVE ForEachUndo(_, _, _, _, _)
ForEachUndo(api, undoApi, list, arn, done) ==
    IF list = <<>> THEN {NoCalls}
    ELSE LET p == Head(list)
             err == CallError(api, p)
         IN  {[calls |-> <<Call(api, p, arn, err)>>
                         \o [i \in 1..Len(done) |-> Call(undoApi, done[i], arn, Nil)],
               err |-> err]}
             \cup {[calls |-> <<Call(api, p, arn, Nil)>> \o r.calls, err |-> r.err] :
                      r \in ForEachUndo(api, undoApi, Tail(list), arn, Append(done, p))}

attachPolicyToUsers(users, arn) == ForEachUntilError("AttachUserPolicy", users, arn)
attachPolicyToRolesKeepGoing(roles, arn) == ForEachKeepGoing("AttachRolePolicy", roles, arn)
attachPolicyToRoles(roles, arn) == ForEachUntilError("AttachRolePolicy", roles, arn)
attachPolicyToGroupsUndo(groups, arn) ==
    ForEachUndo("AttachGroupPolicy", "DetachGroupPolicy", groups, arn, <<>>)
attachPolicyToGroups(groups, arn) == ForEachUntilError("AttachGroupPolicy", groups, arn)
detachPolicyFromUsers(users, arn) == ForEachUntilError("DetachUserPolicy", users, arn)
detachPolicyFromRoles(roles, arn) == ForEachUntilError("DetachRolePolicy", roles, arn)
detachPolicyFromGroupsKeepGoing(groups, arn) ==
    ForEachKeepGoing("DetachGroupPolicy", groups, arn)
detachPolicyFromGroups(groups, arn) == ForEachUntilError("DetachGroupPolicy", groups, arn)

(* ---- Read -------------------------------------------------------------- *)

IsNoSuchIdentityAnyType(err) == err.code = "NoSuchIdentity"
IsNoSuchIdentity(err) == err.type = "aws" /\ err.code = "NoSuchIdentity"

\* The lists ListEntitiesForPolicy answers with: the principals attached remotely.
PolicyEntities(rem) == [k \in Kinds |-> CHOOSE l \in List(rem[k]) : TRUE]

\* Every run of Read on rd against the remote state rem.  d.Set of a list of
\* strings to a set of strings succeeds, so the return of line 130 is not taken.
resourceAwsIamPolicyAttachmentRead(rd, rem) ==
    LET getFailed ==
            {[d |-> IF IsNoSuchIdentity(e) THEN SetId(rd, "") ELSE rd,
              calls |-> <<Call("GetPolicy", "", rd.arn, e)>>
                        \o (IF IsNoSuchIdentity(e) THEN <<SetIdCall("")>> ELSE <<>>),
              err |-> IF IsNoSuchIdentity(e) THEN Nil ELSE e] : e \in GetPolicyErrors}
        got == <<Call("GetPolicy", "", rd.arn, Nil)>>
        listFailed ==
            [d |-> rd,
             calls |-> got \o <<Call("ListEntitiesForPolicy", "", rd.arn, ListError)>>,
             err |-> ListError]
        policyEntities == PolicyEntities(rem)
        listed ==
            [d |-> Set(Set(Set(rd, "users", policyEntities.users),
                               "roles", policyEntities.roles),
                               "groups", policyEntities.groups),
             calls |-> got \o <<Call("ListEntitiesForPolicy", "", rd.arn, Nil)>>,
             err |-> Nil]
    IN  getFailed \cup {listFailed, listed}

(* ---- Create ------------------------------------------------------------ *)

NoPrincipalsGroupsSet(users, roles, groups) == users = nil /\ roles = nil /\ groups # nil
NoPrincipals(users, roles, groups) == users = nil /\ roles = nil /\ groups = nil

\* The three attach loops of Create, each run if its list is not nil, whatever the
\* loops before it returned: <<users' run, roles' run, groups' run>>.
CreateKinds(rd, users, roles, groups) ==
    {<<ru, rr, rg>> :
        ru \in (IF users # nil THEN attachPolicyToUsers(users, rd.arn) ELSE {NoCalls}),
        rr \in (IF roles # nil THEN attachPolicyToRoles(roles, rd.arn) ELSE {NoCalls}),
        rg \in (IF groups # nil THEN attachPolicyToGroups(groups, rd.arn) ELSE {NoCalls})}

\* Read first, d.SetId(name) after it.
CreateFinishReadFirst(rd, rem, cs) ==
    {[d |-> SetId(r.d, rd.name), calls |-> cs \o r.calls \o <<SetIdCall(rd.name)>>, err |-> r.err] :
        r \in resourceAwsIamPolicyAttachmentRead(rd, RemoteAfterAll(rem, cs))}

\* d.SetId(name), then Read: the end of a Create whose calls cs all succeeded.
CreateFinish(rd, rem, cs) ==
    {[d |-> r.d, calls |-> cs \o <<SetIdCall(rd.name)>> \o r.calls, err |-> r.err] :
        r \in resourceAwsIamPolicyAttachmentRead(SetId(rd, rd.name), RemoteAfterAll(rem, cs))}

CreateLists(rd, rem, users, roles, groups) ==
    IF NoPrincipals(users, roles, groups)
    THEN {[d |-> rd, calls |-> <<>>,
           err |-> Errorf("No Users, Roles, or Groups specified", rd.name, Nil, Nil, Nil)]}
    ELSE UNION {
            LET userErr == t[1].err
                roleErr == t[2].err
                groupErr == t[3].err
                cs == t[1].calls \o t[2].calls \o t[3].calls
            IN  IF userErr # Nil \/ roleErr # Nil \/ groupErr # Nil
                THEN {[d |-> rd, calls |-> cs,
                       err |-> Errorf("Error attaching policy", rd.name,
                                      userErr, roleErr, groupErr)]}
                ELSE CreateFinish(rd, rem, cs) :
            t \in CreateKinds(rd, users, roles, groups)}

\* Every run of Create on rd against the remote state rem.
resourceAwsIamPolicyAttachmentCreate(rd, rem) ==
    UNION {CreateLists(rd, rem, expandStringList(ul), expandStringList(rl), expandStringList(gl)) :
              ul \in List(rd.new.users), rl \in List(rd.new.roles), gl \in List(rd.new.groups)}

(* ---- Update ------------------------------------------------------------ *)

\* if rErr := detach(remove); rErr != nil { return rErr }
\* if aErr := attach(add); aErr != nil { return aErr }; return nil
DetachThenAttach(detached, attached) ==
    UNION {IF rD.err # Nil THEN {rD}
           ELSE {[calls |-> rD.calls \o rA.calls, err |-> rA.err] : rA \in attached} :
           rD \in detached}

\* updateUsers without its detach loop.
updateUsersNoDetach(rd) ==
    LET os == rd.old.users
        ns == rd.new.users
    IN  UNION {attachPolicyToUsers(add, rd.arn) :
                  add \in {expandStringList(l) : l \in List(Difference(ns, os))}}

updateUsers(rd) ==
    LET os == rd.old.users
        ns == rd.new.users
    IN  UNION {DetachThenAttach(detachPolicyFromUsers(remove, rd.arn),
                                attachPolicyToUsers(add, rd.arn)) :
                  remove \in {expandStringList(l) : l \in List(Difference(os, ns))},
                  add \in {expandStringList(l) : l \in List(Difference(ns, os))}}

\* updateRoles with the attach loop before the detach loop.
updateRolesAttachFirst(rd) ==
    LET os == rd.old.roles
        ns == rd.new.roles
    IN  UNION {DetachThenAttach(attachPolicyToRoles(add, rd.arn),
                                detachPolicyFromRoles(remove, rd.arn)) :
                  remove \in {expandStringList(l) : l \in List(Difference(os, ns))},
                  add \in {expandStringList(l) : l \in List(Difference(ns, os))}}

updateRoles(rd) ==
    LET os == rd.old.roles
        ns == rd.new.roles
    IN  UNION {DetachThenAttach(detachPolicyFromRoles(remove, rd.arn),
                                attachPolicyToRoles(add, rd.arn)) :
                  remove \in {expandStringList(l) : l \in List(Difference(os, ns))},
                  add \in {expandStringList(l) : l \in List(Difference(ns, os))}}

updateGroups(rd) ==
    LET os == rd.old.groups
        ns == rd.new.groups
    IN  UNION {DetachThenAttach(detachPolicyFromGroups(remove, rd.arn),
                                attachPolicyToGroups(add, rd.arn)) :
                  remove \in {expandStringList(l) : l \in List(Difference(os, ns))},
                  add \in {expandStringList(l) : l \in List(Difference(ns, os))}}

\* Update returning at the first kind that failed.
UpdateKindsStopAtError(rd) ==
    LET U == IF HasChange(rd, "users") THEN updateUsers(rd) ELSE {NoCalls}
        R == IF HasChange(rd, "roles") THEN updateRoles(rd) ELSE {NoCalls}
        G == IF HasChange(rd, "groups") THEN updateGroups(rd) ELSE {NoCalls}
    IN  UNION {IF ru.err # Nil THEN {<<ru, NoCalls, NoCalls>>}
               ELSE UNION {IF rr.err # Nil THEN {<<ru, rr, NoCalls>>}
                           ELSE {<<ru, rr, rg>> : rg \in G} : rr \in R} :
               ru \in U}

\* Update with the groups' detach and attach loops run on every stored and every
\* declared group, changed or not.
UpdateKindsGroupsNoDiff(rd) ==
    {<<ru, rr, rg>> :
        ru \in (IF HasChange(rd, "users") THEN updateUsers(rd) ELSE {NoCalls}),
        rr \in (IF HasChange(rd, "roles") THEN updateRoles(rd) ELSE {NoCalls}),
        rg \in UNION {DetachThenAttach(detachPolicyFromGroups(expandStringList(o), rd.arn),
                                       attachPolicyToGroups(expandStringList(n), rd.arn)) :
                         o \in List(rd.old.groups), n \in List(rd.new.groups)}}

\* The three updates of Update, each run if its attribute has a change, whatever
\* the updates before it returned.
UpdateKinds(rd) ==
    {<<ru, rr, rg>> :
        ru \in (IF HasChange(rd, "users") THEN updateUsers(rd) ELSE {NoCalls}),
        rr \in (IF HasChange(rd, "roles") THEN updateRoles(rd) ELSE {NoCalls}),
        rg \in (IF HasChange(rd, "groups") THEN updateGroups(rd) ELSE {NoCalls})}

\* Every run of Update on rd against the remote state rem.
resourceAwsIamPolicyAttachmentUpdate(rd, rem) ==
    UNION {
        LET userErr == t[1].err
            roleErr == t[2].err
            groupErr == t[3].err
            cs == t[1].calls \o t[2].calls \o t[3].calls
        IN  IF userErr # Nil \/ roleErr # Nil \/ groupErr # Nil
            THEN {[d |-> rd, calls |-> cs,
                   err |-> Errorf("Error updating user, role, or group list", rd.name,
                                  userErr, roleErr, groupErr)]}
            ELSE {[d |-> r.d, calls |-> cs \o r.calls, err |-> r.err] :
                    r \in resourceAwsIamPolicyAttachmentRead(rd, RemoteAfterAll(rem, cs))} :
        t \in UpdateKinds(rd)}

(* ---- Delete ------------------------------------------------------------ *)

\* The three detach loops of Delete, each run if its list is not nil, whatever the
\* loops before it returned.
DeleteKinds(rd, users, roles, groups) ==
    {<<ru, rr, rg>> :
        ru \in (IF users # nil THEN detachPolicyFromUsers(users, rd.arn) ELSE {NoCalls}),
        rr \in (IF roles # nil THEN detachPolicyFromRoles(roles, rd.arn) ELSE {NoCalls}),
        rg \in (IF groups # nil THEN detachPolicyFromGroups(groups, rd.arn) ELSE {NoCalls})}

DeleteLists(rd, users, roles, groups) ==
    {LET userErr == t[1].err
         roleErr == t[2].err
         groupErr == t[3].err
     IN  [d |-> rd, calls |-> t[1].calls \o t[2].calls \o t[3].calls,
          err |-> IF userErr # Nil \/ roleErr # Nil \/ groupErr # Nil
                  THEN Errorf("Error removing user, role, or group list", rd.name,
                              userErr, roleErr, groupErr)
                  ELSE Nil] :
        t \in DeleteKinds(rd, users, roles, groups)}

\* Every run of Delete on rd.
resourceAwsIamPolicyAttachmentDelete(rd) ==
    UNION {DeleteLists(rd, expandStringList(ul), expandStringList(rl), expandStringList(gl)) :
              ul \in List(rd.new.users), rl \in List(rd.new.roles), gl \in List(rd.new.groups)}

(* ---- the state machine -------------------------------------------------- *)

NoInvocation == [name |-> "none", d0 |-> [id |-> "", sets |-> NoMembers], remote0 |-> NoMembers]

\* Before the first invocation: the declared sets are any sets; either nothing has
\* been created yet, or the resource exists, its stored sets being the remote ones.
Init ==
    /\ config \in MemberSets
    /\ \/ d = [id |-> "", sets |-> NoMembers] /\ remote = NoMembers
       \/ \E P \in MemberSets : d = [id |-> Name, sets |-> P] /\ remote = P
    /\ inv = NoInvocation
    /\ trace = <<>>
    /\ ret = Nil
    /\ prev = [name |-> "none", ok |-> TRUE, changed |-> FALSE]
    /\ nops = 0

\* The handler named name ran as r: what it leaves behind.
Invoked(name, r) ==
    /\ d' = [id |-> r.d.id, sets |-> r.d.new]
    /\ remote' = RemoteAfterAll(remote, r.calls)
    /\ trace' = r.calls
    /\ ret' = r.err
    /\ inv' = [name |-> name, d0 |-> d, remote0 |-> remote]
    /\ prev' = [name |-> inv.name, ok |-> ret = Nil,
                changed |-> RemoteAfterAll(inv.remote0, trace) # inv.remote0]
    /\ nops' = nops + 1
    /\ UNCHANGED config

\* A run is one invocation of any handler, from any state of Init, and then
\* Update applied again to the same declared sets, up to MaxOps invocations in all.

\* Create runs on a resource without id; d.Get returns the declared sets.
Create ==
    /\ nops = 0
    /\ d.id = ""
    /\ \E r \in resourceAwsIamPolicyAttachmentCreate(ResourceData(d.id, d.sets, config), remote) :
          Invoked("Create", r)

\* Read, Update and Delete run on a resource with an id.
Read ==
    /\ nops = 0
    /\ d.id # ""
    /\ \E r \in resourceAwsIamPolicyAttachmentRead(ResourceData(d.id, d.sets, d.sets), remote) :
          Invoked("Read", r)

\* d.GetChange returns the stored sets and the declared ones.
Update ==
    /\ nops = 0 \/ (inv.name = "Update" /\ nops < MaxOps)
    /\ d.id # ""
    /\ \E r \in resourceAwsIamPolicyAttachmentUpdate(ResourceData(d.id, d.sets, config), remote) :
          Invoked("Update", r)

\* On destroy d.Get returns the stored sets.
Delete ==
    /\ nops = 0
    /\ d.id # ""
    /\ \E r \in resourceAwsIamPolicyAttachmentDelete(ResourceData(d.id, d.sets, d.sets)) :
          Invoked("Delete", r)

Next == Create \/ Read \/ Update \/ Delete

Spec == Init /\ [][Next]_vars

(* ---- what the most recent invocation did -------------------------------- *)

Prior(k) == inv.d0.sets[k]
Desired(k) == config[k]

Attaches(k) == LET T(c) == c.api = AttachApi[k] IN SelectSeq(trace, T)
Detaches(k) == LET T(c) == c.api = DetachApi[k] IN SelectSeq(trace, T)
KindCalls(k) == LET T(c) == c.api \in {AttachApi[k], DetachApi[k]} IN SelectSeq(trace, T)
RemoteCalls == LET T(c) == c.api # "SetId" IN SelectSeq(trace, T)

Who(cs) == {cs[i].who : i \in DOMAIN cs}
Succeeded(cs) == {cs[i].who : i \in {j \in DOMAIN cs : cs[j].err = Nil}}
AllOk(cs) == \A i \in DOMAIN cs : cs[i].err = Nil
FailedIsLast(cs) == \A i \in DOMAIN cs : cs[i].err # Nil => i = Len(cs)
OneEach(cs) == \A i, j \in DOMAIN cs : cs[i].who = cs[j].who => i = j
FirstError(cs) ==
    IF AllOk(cs) THEN Nil
    ELSE cs[CHOOSE i \in DOMAIN cs : cs[i].err # Nil /\ \A j \in 1..(i - 1) : cs[j].err = Nil].err
ReadPerformed == \E i \in DOMAIN trace : trace[i].api = "GetPolicy"
ByKind == KindCalls("users") \o KindCalls("roles") \o KindCalls("groups")

\* The calls cs are one detach per member of P \ D and then one attach per member of D \ P.
DetachesThenAttaches(cs, k, P, D) ==
    LET nR == Cardinality(P \ D)
    IN  /\ Len(cs) = nR + Cardinality(D \ P)
        /\ \A i \in DOMAIN cs : cs[i].api = IF i <= nR THEN DetachApi[k] ELSE AttachApi[k]
        /\ {cs[i].who : i \in 1..nR} = P \ D
        /\ {cs[i].who : i \in (nR + 1)..Len(cs)} = D \ P

(* ---- the claims ---------------------------------------------------------- *)

\* C1: Create with users, roles and groups all empty returns the "no principals"
\* error, issues no remote call at all, and does not set the id.
C1_EmptyCreateRejected ==
    (inv.name = "Create" /\ config = NoMembers) =>
        /\ ret = Errorf("No Users, Roles, or Groups specified", Name, Nil, Nil, Nil)
        /\ trace = <<>>
        /\ d.id = ""
        /\ remote = inv.remote0

C1_Witness == inv.name = "Create" /\ config = NoMembers /\ ret # Nil

\* C2 as stated: in Update, for each kind whose prior and desired sets differ, the
\* calls of the kind are exactly one detach per member of P \ D followed by one
\* attach per member of D \ P.
C2_AsStated ==
    inv.name = "Update" =>
        \A k \in Kinds :
            Prior(k) # Desired(k) => DetachesThenAttaches(KindCalls(k), k, Prior(k), Desired(k))

\* C2 amended: in Update, for each kind whose prior and desired sets differ, the
\* calls of the kind are a prefix of "one detach per member of P \ D, then one
\* attach per member of D \ P" that stops at the first failed call: detaches go to
\* members of P \ D only and attaches to members of D \ P only (none to P \cap D),
\* no member is called twice, every detach precedes every attach, an attach is
\* issued only after all of P \ D was detached, nothing follows a failed call, and
\* when no call of the kind fails the sequence is the whole one.
C2_DetachBeforeAttach ==
    inv.name = "Update" =>
        \A k \in Kinds :
            Prior(k) # Desired(k) =>
                LET cs == KindCalls(k)
                    P == Prior(k)
                    D == Desired(k)
                IN  /\ Who(Detaches(k)) \subseteq P \ D
                    /\ Who(Attaches(k)) \subseteq D \ P
                    /\ OneEach(cs)
                    /\ \A i, j \in DOMAIN cs :
                          (cs[i].api = AttachApi[k] /\ cs[j].api = DetachApi[k]) => j < i
                    /\ Attaches(k) # <<>> => Succeeded(Detaches(k)) = P \ D
                    /\ FailedIsLast(cs)
                    /\ AllOk(cs) => DetachesThenAttaches(cs, k, P, D)

C2_Witness ==
    /\ inv.name = "Update"
    /\ Prior("roles") = {"r1", "r2"}
    /\ Desired("roles") = {"r2", "r3"}
    /\ KindCalls("roles") = <<Call("DetachRolePolicy", "r1", Arn, Nil),
                              Call("AttachRolePolicy", "r3", Arn, Nil)>>

\* C3: for the prior set P and desired set D of each kind, remove = P \ D and
\* add = D \ P are disjoint, remove is within P, add is within D, and
\* (P \ remove) \cup add = D; and when the remote set of the kind was P before
\* Update and every remote call succeeded, the remote set is D after it.
C3_ReconcilesToDesired ==
    inv.name = "Update" =>
        \A k \in Kinds :
            LET P == Prior(k)
                D == Desired(k)
                remove == Difference(P, D)
                add == Difference(D, P)
            IN  /\ remove \cap add = {}
                /\ remove \subseteq P
                /\ add \subseteq D
                /\ (P \ remove) \cup add = D
                /\ (inv.remote0[k] = P /\ AllOk(RemoteCalls)) => remote[k] = D

C3_Witness ==
    /\ inv.name = "Update"
    /\ AllOk(RemoteCalls)
    /\ \E k \in Kinds :
          /\ Prior(k) \ Desired(k) # {}
          /\ Desired(k) \ Prior(k) # {}
          /\ inv.remote0[k] = Prior(k)
          /\ remote[k] = Desired(k)

\* C4: in a Create in which an attach call fails, each kind's loop stops at its own
\* failed call (the rest of that kind is not attempted), every non-empty kind is
\* still run, users then roles then groups, a kind without a failure being attached
\* in full; Create returns the one error carrying the three per-kind errors, does
\* not set the id and does not run Read.
C4_CreatePartialFailure ==
    (inv.name = "Create" /\ \E k \in Kinds : ~AllOk(Attaches(k))) =>
        /\ \A k \in Kinds :
              LET cs == KindCalls(k)
              IN  /\ \A i \in DOMAIN cs : cs[i].api = AttachApi[k]
                  /\ Who(cs) \subseteq Desired(k)
                  /\ OneEach(cs)
                  /\ FailedIsLast(cs)
                  /\ AllOk(cs) => Who(cs) = Desired(k)
                  /\ Desired(k) # {} => cs # <<>>
        /\ trace = ByKind
        /\ ret = Errorf("Error attaching policy", Name,
                        FirstError(KindCalls("users")),
                        FirstError(KindCalls("roles")),
                        FirstError(KindCalls("groups")))
        /\ d.id = ""
        /\ ~ReadPerformed

C4_Witness ==
    /\ inv.name = "Create"
    /\ ~AllOk(Attaches("roles"))
    /\ Len(Attaches("roles")) < Cardinality(Desired("roles"))
    /\ Desired("groups") = Groups
    /\ Succeeded(Attaches("groups")) = Groups
    /\ ret.type = "fmt"
    /\ d.id = ""

\* C5 as stated: in a Delete in which the detach of one group fails, the detach of
\* every other listed group is still attempted, and Delete returns the aggregate
\* error containing the failure.
C5_AsStated ==
    (inv.name = "Delete" /\ ~AllOk(Detaches("groups"))) =>
        /\ Who(Detaches("groups")) = Prior("groups")
        /\ ret.type = "fmt"
        /\ ret.groups = FirstError(Detaches("groups"))

\* C5 amended: in Delete the groups' detach loop stops at its first failed call:
\* the groups listed before it were detached, those listed after it are not
\* attempted (with groups {g1, g2} and g1 failing, g2 is attempted only when it is
\* listed before g1); the other kinds are still run, and Delete returns the
\* aggregate error whose groups slot is the failure.
C5_DeleteStopsKindAtFailure ==
    inv.name = "Delete" =>
        LET cs == KindCalls("groups")
        IN  /\ \A i \in DOMAIN cs : cs[i].api = DetachApi["groups"]
            /\ Who(cs) \subseteq Prior("groups")
            /\ OneEach(cs)
            /\ FailedIsLast(cs)
            /\ AllOk(cs) => Who(cs) = Prior("groups")
            /\ \A k \in Kinds : Prior(k) # {} => KindCalls(k) # <<>>
            /\ trace = ByKind
            /\ ~AllOk(cs) =>
                  /\ ret = Errorf("Error removing user, role, or group list", Name,
                                  FirstError(KindCalls("users")),
                                  FirstError(KindCalls("roles")),
                                  FirstError(cs))
                  /\ ret.groups = cs[Len(cs)].err

C5_Witness ==
    /\ inv.name = "Delete"
    /\ Prior("groups") = {"g1", "g2"}
    /\ KindCalls("groups") =
          <<Call("DetachGroupPolicy", "g1", Arn, CallError("DetachGroupPolicy", "g1"))>>
    /\ ret.type = "fmt"
    /\ ret.groups = CallError("DetachGroupPolicy", "g1")

\* The identity-not-found condition: an awserr.Error whose code is NoSuchIdentity.
NotFound(err) == err.type = "aws" /\ err.code = "NoSuchIdentity"

\* C6: in Read, when GetPolicy reports identity-not-found, Read returns no error,
\* clears the id, issues no ListEntitiesForPolicy call and leaves the stored sets
\* as they were; when GetPolicy or ListEntitiesForPolicy fails otherwise, Read
\* returns that very error and changes neither the id nor the stored sets.
C6_ReadErrors ==
    inv.name = "Read" =>
        /\ trace # <<>>
        /\ trace[1].api = "GetPolicy"
        /\ NotFound(trace[1].err) =>
              /\ ret = Nil
              /\ d.id = ""
              /\ \A i \in DOMAIN trace : trace[i].api # "ListEntitiesForPolicy"
              /\ d.sets = inv.d0.sets
        /\ (trace[1].err # Nil /\ ~NotFound(trace[1].err)) =>
              /\ ret = trace[1].err
              /\ d = inv.d0
              /\ Len(trace) = 1
        /\ \A i \in DOMAIN trace :
              (trace[i].api = "ListEntitiesForPolicy" /\ trace[i].err # Nil) =>
                  /\ ret = trace[i].err
                  /\ d = inv.d0

C6_Witness ==
    /\ inv.name = "Read"
    /\ NotFound(trace[1].err)
    /\ inv.d0.id = Name
    /\ inv.d0.sets # NoMembers
    /\ d.id = ""
    /\ ret = Nil

\* C7: a Create with a non-empty set whose attach calls all succeed issues exactly
\* one attach per declared member, with the kind's own attach operation and the
\* policy arn, none for an empty kind and no detach; it then sets the id to the
\* name, and only after that runs Read.
C7_CreateAttachesEachOnce ==
    (inv.name = "Create" /\ config # NoMembers /\ \A k \in Kinds : AllOk(Attaches(k))) =>
        /\ \A k \in Kinds :
              LET cs == KindCalls(k)
              IN  /\ Len(cs) = Cardinality(Desired(k))
                  /\ Who(cs) = Desired(k)
                  /\ \A i \in DOMAIN cs : cs[i].api = AttachApi[k] /\ cs[i].arn = Arn
        /\ LET n == Len(ByKind)
           IN  /\ Len(trace) >= n + 2
               /\ SubSeq(trace, 1, n) = ByKind
               /\ trace[n + 1] = SetIdCall(Name)
               /\ trace[n + 2].api = "GetPolicy"
               /\ \A i \in DOMAIN trace :
                     trace[i].api \in {"GetPolicy", "ListEntitiesForPolicy"} => i > n + 1

C7_Witness ==
    /\ inv.name = "Create"
    /\ config = [users |-> {"alice"}, roles |-> {}, groups |-> {}]
    /\ trace = <<Call("AttachUserPolicy", "alice", Arn, Nil),
                 SetIdCall(Name),
                 Call("GetPolicy", "", Arn, Nil),
                 Call("ListEntitiesForPolicy", "", Arn, Nil)>>
    /\ d.id = Name
    /\ remote.users = {"alice"}

\* C8: in Update a kind whose prior and desired sets are equal gets no attach or
\* detach call; every kind whose sets differ is run, whatever the other kinds
\* returned, up to its own first failure or to its end; when a kind failed Update
\* returns the one aggregate error and does not run Read, otherwise it runs Read.
C8_UpdateKindsIndependent ==
    inv.name = "Update" =>
        /\ \A k \in Kinds : Prior(k) = Desired(k) => KindCalls(k) = <<>>
        /\ \A k \in Kinds :
              Prior(k) # Desired(k) =>
                  LET cs == KindCalls(k)
                  IN  /\ cs # <<>>
                      /\ FailedIsLast(cs)
                      /\ AllOk(cs) => DetachesThenAttaches(cs, k, Prior(k), Desired(k))
        /\ (\E k \in Kinds : ~AllOk(KindCalls(k))) =>
              /\ ret = Errorf("Error updating user, role, or group list", Name,
                              FirstError(KindCalls("users")),
                              FirstError(KindCalls("roles")),
                              FirstError(KindCalls("groups")))
              /\ trace = ByKind
              /\ ~ReadPerformed
        /\ (\A k \in Kinds : AllOk(KindCalls(k))) =>
              /\ Len(trace) > Len(ByKind)
              /\ SubSeq(trace, 1, Len(ByKind)) = ByKind
              /\ trace[Len(ByKind) + 1].api = "GetPolicy"

C8_Witness ==
    /\ inv.name = "Update"
    /\ Prior("users") = Desired("users")
    /\ Desired("users") # {}
    /\ ~AllOk(KindCalls("roles"))
    /\ Prior("groups") # Desired("groups")
    /\ DetachesThenAttaches(KindCalls("groups"), "groups", Prior("groups"), Desired("groups"))
    /\ AllOk(KindCalls("groups"))
    /\ ret.type = "fmt"

\* C9: after an Update that returned no error, an Update of a kind whose prior set
\* is the desired set issues no attach and no detach call for that kind and leaves
\* the kind's remote set as it was.
C9_SecondUpdateIsEmpty ==
    (prev.name = "Update" /\ prev.ok /\ inv.name = "Update") =>
        \A k \in Kinds :
            Prior(k) = Desired(k) => (KindCalls(k) = <<>> /\ remote[k] = inv.remote0[k])

C9_Witness ==
    /\ prev.name = "Update"
    /\ prev.ok
    /\ prev.changed
    /\ inv.name = "Update"
    /\ Desired("groups") # {}
    /\ \A k \in Kinds : Prior(k) = Desired(k) /\ remote[k] = Desired(k)
    /\ RemoteCalls = <<Call("GetPolicy", "", Arn, Nil), Call("ListEntitiesForPolicy", "", Arn, Nil)>>

\* C10: Create, Update and Delete undo nothing: no principal is both attached and
\* detached by one invocation, and afterwards every principal whose attach
\* succeeded is attached and every principal whose detach succeeded is not,
\* whatever the invocation returned; an Update of a kind whose detaches all
\* succeeded and one of whose attaches failed leaves the kind's remote set equal
\* to neither the prior nor the desired set; and a Create of two or more principals
\* can fail with a principal attached and no id set.
C10_NoRollback ==
    /\ inv.name \in {"Create", "Update", "Delete"} =>
          \A k \in Kinds :
              /\ Succeeded(Attaches(k)) \cap Succeeded(Detaches(k)) = {}
              /\ remote[k] = (inv.remote0[k] \ Succeeded(Detaches(k))) \cup Succeeded(Attaches(k))
    /\ inv.name = "Update" =>
          \A k \in Kinds :
              (Detaches(k) # <<>> /\ AllOk(Detaches(k)) /\ ~AllOk(Attaches(k))) =>
                  (remote[k] # Prior(k) /\ remote[k] # Desired(k))
    /\ (nops = 0 /\ d.id = ""
           /\ Cardinality(config.users) + Cardinality(config.roles) + Cardinality(config.groups) > 1) =>
          \E r \in resourceAwsIamPolicyAttachmentCreate(ResourceData(d.id, d.sets, config), remote) :
              /\ r.err # Nil
              /\ r.d.id = ""
              /\ RemoteAfterAll(remote, r.calls) # remote

C10_Witness ==
    /\ inv.name = "Update"
    /\ ret.type = "fmt"
    /\ \E k \in Kinds :
          /\ Succeeded(Detaches(k)) = Prior(k) \ Desired(k)
          /\ Detaches(k) # <<>>
          /\ Succeeded(Attaches(k)) # {}
          /\ ~AllOk(Attaches(k))
          /\ remote[k] # Prior(k)
          /\ remote[k] # Desired(k)

====
